---- MODULE Spec2Model ----
(***************************************************************************)
(* Prediction view of frontend/src/app/page.tsx (component Home).          *)
(*                                                                         *)
(* State: the four useState cells (horses, predictions, isLoading, error), *)
(* the POSTs to /api/predict that are in flight, and the last parsed       *)
(* response.  JavaScript numbers are modelled in tenths (the number 1.5 is *)
(* 15, the number 1 is 10); strings that are converted to or from numbers  *)
(* are sequences of one-character strings.                                 *)
(***************************************************************************)
EXTENDS Integers, Sequences, FiniteSets

VARIABLES horses, predictions, isLoading, error, requests, data, edits

vars == <<horses, predictions, isLoading, error, requests, data, edits>>

(* ------------------------------ bounds --------------------------------- *)
\* largest umaban addHorse may hand out in the explored runs
MaxUmaban == 2
\* number of handleHorseChange events in an explored run
MaxEdits == 1
\* longest predictions array the backend returns in the explored runs
MaxPreds == 2

(* --------------------------- number model ------------------------------ *)
\* the number 1, in tenths
One == 10

IsInteger(n) == n % One = 0

DigitChars == <<"0", "1", "2", "3", "4", "5", "6", "7", "8", "9">>

DigitVal(c) == (CHOOSE i \in 1..10 : DigitChars[i] = c) - 1

RECURSIVE DigitsVal(_)
DigitsVal(s) ==
  IF s = <<>> THEN 0
  ELSE DigitsVal(SubSeq(s, 1, Len(s) - 1)) * 10 + DigitVal(s[Len(s)])

RECURSIVE DigitsOf(_)
DigitsOf(k) ==
  IF k < 10 THEN <<DigitChars[k + 1]>>
  ELSE Append(DigitsOf(k \div 10), DigitChars[(k % 10) + 1])

\* value of a decimal literal: optional sign, digits, optional fraction
DecimalLiteral(s) ==
  LET neg  == Head(s) = "-"
      body == IF neg THEN Tail(s) ELSE s
      dots == {i \in 1..Len(body) : body[i] = "."}
      dot  == IF dots = {} THEN Len(body) + 1 ELSE CHOOSE i \in dots : TRUE
      ip   == SubSeq(body, 1, dot - 1)
      fp   == SubSeq(body, dot + 1, Len(body))
      mag  == DigitsVal(ip) * One + (IF fp = <<>> THEN 0 ELSE DigitVal(fp[1]))
  IN  IF neg THEN 0 - mag ELSE mag

\* Number(value): the empty string converts to 0
Number(value) == IF value = <<>> THEN 0 ELSE DecimalLiteral(value)

NumberToStringTruncated(n) ==
  LET mag == IF n < 0 THEN 0 - n ELSE n
  IN  (IF n < 0 THEN <<"-">> ELSE <<>>) \o DigitsOf(mag \div One)

\* serialisation of a finite number by JSON.stringify
NumberToString(n) ==
  LET mag  == IF n < 0 THEN 0 - n ELSE n
      ip   == DigitsOf(mag \div One)
      fp   == IF mag % One = 0 THEN <<>> ELSE <<".", DigitChars[(mag % One) + 1]>>
  IN  (IF n < 0 THEN <<"-">> ELSE <<>>) \o ip \o fp

(* ----------------------------- horses ---------------------------------- *)
HorseFields == {"waku", "umaban", "jockey_weight", "horse_weight", "sex", "age"}

createDefaultHorse(umaban) ==
  [waku |-> 1 * One, umaban |-> umaban, jockey_weight |-> 55 * One,
   horse_weight |-> 480 * One, sex |-> 0, age |-> 4 * One]

\* strings an <input type="number"> delivers: empty (cleared or not a
\* number) and a fraction; the <select> delivers the integers
NumberInputValues == {<<>>, <<"1", ".", "5">>}

\* option values of the sex <select>
SelectOptions == {0, 1, 2}

SelectValues == {NumberToString(o * One) : o \in SelectOptions}

\* e.target.value of the control wired to a field
ControlValues(field) ==
  IF field = "sex" THEN SelectValues ELSE NumberInputValues

RECURSIVE MaxOf(_)
MaxOf(S) ==
  LET x == CHOOSE y \in S : TRUE
  IN  IF S = {x} THEN x
      ELSE LET m == MaxOf(S \ {x}) IN IF x > m THEN x ELSE m

(* ------------------------- request and response ------------------------ *)
\* JSON.stringify({ horses }): every field of every horse, as number text
JSONstringify(hs) ==
  [i \in 1..Len(hs) |-> [f \in HorseFields |-> NumberToString(hs[i][f])]]

\* records a response is made of; a response may repeat one
PredictionRecords ==
  {[umaban |-> One, probability |-> 125],
   [umaban |-> 2 * One, probability |-> 500]}

RECURSIVE SeqsUpTo(_, _)
SeqsUpTo(S, n) ==
  IF n = 0 THEN {<<>>}
  ELSE LET shorter == SeqsUpTo(S, n - 1)
       IN  shorter \cup {Append(s, x) : s \in {t \in shorter : Len(t) = n - 1}, x \in S}

Undefined == [def |-> FALSE, list |-> <<>>]

Defined(list) == [def |-> TRUE, list |-> list]

NoData == [hasError |-> FALSE, error |-> "", predictions |-> Undefined]

\* what the fetch can settle with
Responses ==
       {[rejected |-> TRUE, ok |-> FALSE, status |-> 0, json |-> FALSE, data |-> NoData]}
  \cup {[rejected |-> FALSE, ok |-> FALSE, status |-> 500, json |-> TRUE, data |-> NoData]}
  \cup {[rejected |-> FALSE, ok |-> TRUE, status |-> 200, json |-> FALSE, data |-> NoData]}
  \cup {[rejected |-> FALSE, ok |-> TRUE, status |-> 200, json |-> TRUE,
         data |-> [hasError |-> TRUE, error |-> e, predictions |-> Undefined]] :
          e \in {"", "model not loaded"}}
  \cup {[rejected |-> FALSE, ok |-> TRUE, status |-> 200, json |-> TRUE,
         data |-> [hasError |-> FALSE, error |-> "", predictions |-> Defined(p)]] :
          p \in SeqsUpTo(PredictionRecords, MaxPreds)}

Null == "null"

(* ------------------------------ render --------------------------------- *)
compareAscending(a, b) == a.probability - b.probability

compare(a, b) == b.probability - a.probability

\* stable insertion of x into a list ordered by compare
RECURSIVE Insert(_, _)
Insert(x, s) ==
  IF s = <<>> THEN <<x>>
  ELSE IF compare(s[Len(s)], x) <= 0 THEN Append(s, x)
  ELSE Append(Insert(x, SubSeq(s, 1, Len(s) - 1)), s[Len(s)])

RECURSIVE sort(_)
sort(s) ==
  IF s = <<>> THEN <<>>
  ELSE Insert(s[Len(s)], sort(SubSeq(s, 1, Len(s) - 1)))

\* the predictions array after a render: sorted in place when it is shown
Render(p) ==
  IF p.def /\ Len(p.list) > 0 THEN Defined(sort(p.list)) ELSE p

\* the component is on screen; reading predictions.length of undefined
\* throws during render and takes the view down
Mounted == predictions.def

PredictDisabledWhileLoadingOnly == isLoading

PredictDisabled == isLoading \/ Len(horses) = 0

(* ------------------------------ actions -------------------------------- *)
Init ==
  /\ horses = <<createDefaultHorse(One)>>
  /\ predictions = Defined(<<>>)
  /\ isLoading = FALSE
  /\ error = Null
  /\ requests = <<>>
  /\ data = NoData
  /\ edits = 0

newUmabanFromLength == (Len(horses) + 1) * One

newUmaban ==
  IF Len(horses) > 0
    THEN MaxOf({horses[i].umaban : i \in 1..Len(horses)}) + One
    ELSE One

addHorse ==
  /\ Mounted
  /\ newUmaban <= MaxUmaban * One
  /\ horses' = Append(horses, createDefaultHorse(newUmaban))
  /\ UNCHANGED <<predictions, isLoading, error, requests, data, edits>>

handleHorseChange(index, field, value) ==
  /\ Mounted
  /\ edits < MaxEdits
  /\ edits' = edits + 1
  /\ horses' = IF field = "umaban" THEN horses
               ELSE [horses EXCEPT ![index] = [@ EXCEPT ![field] = Number(value)]]
  /\ UNCHANGED <<predictions, isLoading, error, requests, data>>

removeHorse(index) ==
  /\ Mounted
  /\ horses' = [i \in 1..(Len(horses) - 1) |->
                  IF i < index THEN horses[i] ELSE horses[i + 1]]
  /\ UNCHANGED <<predictions, isLoading, error, requests, data, edits>>

\* handlePredict up to the await of fetch
handlePredict ==
  /\ Mounted
  /\ ~PredictDisabled
  /\ isLoading' = TRUE
  /\ error' = Null
  /\ predictions' = Defined(<<>>)
  /\ requests' = Append(requests, JSONstringify(horses))
  /\ data' = NoData
  /\ UNCHANGED <<horses, edits>>

\* message of the Error the try block ends with, or Null when it completes
Thrown(r) ==
  IF r.rejected THEN "Failed to fetch"
  ELSE IF ~r.ok THEN "status not ok"
  ELSE IF ~r.json THEN "Unexpected token"
  ELSE IF r.data.hasError /\ r.data.error # "" THEN "prediction error: " \o r.data.error
  ELSE Null

fetchSettledWithoutFinally(k, r) ==
  /\ LET msg == Thrown(r)
     IN  /\ data' = IF r.rejected \/ ~r.ok \/ ~r.json THEN NoData ELSE r.data
         /\ predictions' = IF msg = Null THEN Render(r.data.predictions) ELSE predictions
         /\ error' = msg
         /\ isLoading' = IF msg = Null THEN FALSE ELSE isLoading
  /\ requests' = [i \in 1..(Len(requests) - 1) |->
                    IF i < k THEN requests[i] ELSE requests[i + 1]]
  /\ UNCHANGED <<horses, edits>>

\* handlePredict from the settling of fetch to the end of finally
fetchSettled(k, r) ==
  /\ LET msg == Thrown(r)
     IN  /\ data' = IF r.rejected \/ ~r.ok \/ ~r.json THEN NoData ELSE r.data
         /\ predictions' = IF msg = Null THEN Render(r.data.predictions) ELSE predictions
         /\ error' = msg
  /\ isLoading' = FALSE
  /\ requests' = [i \in 1..(Len(requests) - 1) |->
                    IF i < k THEN requests[i] ELSE requests[i + 1]]
  /\ UNCHANGED <<horses, edits>>

Settle == \E k \in 1..Len(requests), r \in Responses : fetchSettled(k, r)

Next ==
  \/ addHorse
  \/ \E index \in 1..Len(horses), field \in HorseFields :
       \E value \in ControlValues(field) : handleHorseChange(index, field, value)
  \/ \E index \in 1..Len(horses) : removeHorse(index)
  \/ handlePredict
  \/ Settle

Spec == Init /\ [][Next]_vars

LiveSpec == Spec /\ WF_vars(Settle)

(* ------------------------------ claims --------------------------------- *)
\* the horses a POST body carries, read back from its JSON text
BodyHorses(body) ==
  [i \in 1..Len(body) |-> [f \in HorseFields |-> DecimalLiteral(body[i][f])]]

Count(s, x) == Cardinality({i \in 1..Len(s) : s[i] = x})

Shown == predictions.def /\ Len(predictions.list) > 0

Started == Len(requests') > Len(requests)

Settled == Len(requests') < Len(requests)

\* C1: a displayed predictions list is in non-increasing order of
\* probability and is a permutation of the list the backend returned.
C1_RenderedSortedDescending ==
  Shown =>
    /\ \A i \in 1..(Len(predictions.list) - 1) :
         predictions.list[i].probability >= predictions.list[i + 1].probability
    /\ data.predictions.def
    /\ Len(predictions.list) = Len(data.predictions.list)
    /\ \A x \in PredictionRecords :
         Count(predictions.list, x) = Count(data.predictions.list, x)

\* a displayed list that the render had to reorder
C1_Witness ==
  /\ Shown
  /\ Len(predictions.list) >= 2
  /\ predictions.list # data.predictions.list

\* C2: the body of a POST is the horses list at the moment handlePredict
\* was invoked (same horses, order and field values), and a request that is
\* in flight is not altered by later edits of the list.
C2_BodyIsHorsesAtInvocation ==
  [][/\ Started => BodyHorses(requests'[Len(requests')]) = horses
     /\ (requests # <<>> /\ requests' # <<>>) => requests' = requests]_vars

\* a request in flight whose list was edited after it was sent
C2_Witness ==
  /\ Len(requests) = 1
  /\ Len(horses) = Len(requests[1])
  /\ BodyHorses(requests[1]) # horses
  /\ \E i \in 1..Len(horses) : ~IsInteger(horses[i].jockey_weight)

\* C3: in every POST body waku, umaban and age are integers and sex is one
\* of 0, 1, 2.
C3_BodyConformsToSchema ==
  \A k \in 1..Len(requests) : \A i \in 1..Len(requests[k]) :
    LET h == BodyHorses(requests[k])[i]
    IN  /\ IsInteger(h.waku)
        /\ IsInteger(h.umaban)
        /\ IsInteger(h.age)
        /\ h.sex \in {o * One : o \in SelectOptions}

\* C4: a response of the {error: string} form, a status that is not OK or a
\* failed fetch ends handlePredict with an error message and an empty
\* predictions list; predictions become non-empty only from a response that
\* is OK and carries no error.
C4_ErrorResponseSetsError ==
  [][\A k \in 1..Len(requests), r \in Responses :
       fetchSettled(k, r) =>
         /\ (r.rejected \/ ~r.ok \/ (r.json /\ r.data.hasError)) =>
              (error' # Null /\ predictions' = Defined(<<>>))
         /\ (predictions' # predictions /\ predictions' # Defined(<<>>)) =>
              (r.ok /\ ~r.data.hasError)]_vars

\* C5: the umaban values of the list are strictly increasing with the index
\* (hence pairwise distinct).
C5_UmabanStrictlyIncreasing ==
  \A i \in 1..Len(horses), j \in 1..Len(horses) :
    i < j => horses[i].umaban < horses[j].umaban

\* two horses in the list, after a horse was added
C5_Witness ==
  /\ Len(horses) >= 2
  /\ horses[2].umaban > horses[1].umaban

\* C6: a request is started only when none is in flight and the list is
\* non-empty, so at most one POST is outstanding and no POST carries an
\* empty horses array, also when horses are removed while it is in flight.
C6_SingleNonEmptyRequest ==
  /\ [][Started => (~isLoading /\ requests = <<>> /\ Len(horses) > 0)]_vars
  /\ [](Len(requests) <= 1 /\ \A k \in 1..Len(requests) : Len(requests[k]) > 0)

\* a request in flight after every horse was removed
C6_Witness ==
  /\ Len(requests) = 1
  /\ isLoading
  /\ Len(horses) = 0

\* C7: handlePredict sets isLoading and clears error and predictions before
\* the request is sent; while isLoading holds, error is null and predictions
\* is empty; once the fetch settles isLoading is false again, whatever the
\* outcome.
C7_LoadingLifecycle ==
  /\ [][Started => (isLoading' /\ error' = Null /\ predictions' = Defined(<<>>))]_vars
  /\ [](isLoading => (error = Null /\ predictions = Defined(<<>>)))
  /\ [][Settled => ~isLoading']_vars
  /\ (isLoading ~> ~isLoading)

\* a request that has settled with an error message
C7_Witness ==
  /\ ~isLoading
  /\ error # Null
  /\ requests = <<>>
  /\ predictions = Defined(<<>>)

====
